---- MODULE Spec2Model ----
(***************************************************************************)
(* Second Brain: the PII guard, the memory manager, the RAG manager and    *)
(* the thought agent, as state machines.                                   *)
(*                                                                         *)
(* Text is a sequence of tokens.  A token is a maximal piece of text that  *)
(* one pattern of PII_PATTERNS matches as a whole (an e-mail address, a    *)
(* phone number, ...), a person's name (which only the guardrails-ai       *)
(* detector recognises), the redaction marker, a white-space run or a      *)
(* plain word.                                                             *)
(***************************************************************************)
EXTENDS Integers, Sequences, FiniteSets, TLC

(***************************************************************************)
(* Bounds of the model.                                                    *)
(***************************************************************************)
\* the memory log holds at most MaxLog entries (appends stop there)
MaxLog == 5
\* get_recent_context is called with n in 0 .. MaxN
MaxN == 4
\* at most MaxFaults operations meet an exception of their environment: a write
\* of the memory file that fails, a call of sanitize in which the detector or
\* re.sub raises
MaxFaults == 1

VARIABLES
    globals,        \* guardrails.py: GUARDRAILS_AVAILABLE, _guardrails_import_tried, _guard_instance
    enabled,        \* PIIGuard.enabled
    guard,          \* PIIGuard.guard: "None", or "Guard" (the guardrails-ai detector)
    memory,         \* MemoryManager.memory
    other,          \* a second MemoryManager over the same MEMORY_FILE: constructed or not, its memory
    file,           \* the content of MEMORY_FILE
    faults,         \* how many writes of MEMORY_FILE and calls of sanitize met an exception so far
    collection,     \* the Chroma collection: id -> [document, embedding, metadata]
    folder,         \* the notes folder: whether it exists, and stem -> the chunks of the file
    ingested,       \* history: the folder and the stored ids when ingest_folder last returned
    pc,             \* where ThoughtAgent.run stands
    frame,          \* the locals of ThoughtAgent.run
    ret             \* what the last operation gave its caller

vars == <<globals, enabled, guard, memory, other, file, faults, collection, folder, ingested, pc, frame, ret>>

(***************************************************************************)
(* Tokens.                                                                 *)
(***************************************************************************)
REDACTED == "[REDACTED]"
WS == " "

\* the pattern of PII_PATTERNS that matches a token as a whole, or what else it is
TokenKind(tok) ==
    CASE tok = "a@b.com"             -> "email"
      [] tok = "555-123-4567"        -> "phone"
      [] tok = "123-45-6789"         -> "ssn"
      [] tok = "4111-1111-1111-1111" -> "credit_card"
      [] tok = "10.0.0.1"            -> "ip_address"
      [] tok = "Alice"               -> "PERSON"
      [] tok = WS                    -> "space"
      [] OTHER                       -> "word"

\* PII_PATTERNS, in the order the dict is iterated
PII_PATTERNS == <<"email", "phone", "ssn", "credit_card", "ip_address">>

\* the entities the guardrails-ai detector is configured with, as far as tokens go
PII_ENTITIES == {"email", "phone", "ssn", "credit_card", "ip_address", "PERSON"}

\* re.sub(pattern, '[REDACTED]', text): every match is replaced
ReSub(pattern, text) ==
    [i \in 1..Len(text) |-> IF TokenKind(text[i]) = pattern THEN REDACTED ELSE text[i]]

RECURSIVE SanitizeFrom(_, _)
SanitizeFrom(k, text) ==
    IF k > Len(PII_PATTERNS) THEN text
    ELSE SanitizeFrom(k + 1, ReSub(PII_PATTERNS[k], text))

\* PIIGuard._sanitize_regex: the patterns are applied one after the other
SanitizeRegex(text) == SanitizeFrom(1, text)

\* guard.validate(text).validated_output when the detector does not throw
GuardValidate(text) ==
    [i \in 1..Len(text) |-> IF TokenKind(text[i]) \in PII_ENTITIES THEN REDACTED ELSE text[i]]

\* one call of PIIGuard.sanitize: the value returned, whether the call raised,
\* what guard.validate did ("none": it was not called) and how each call of
\* _sanitize_regex went, in order
SanitizeCall(value, detector, regex) ==
    [value |-> value, raised |-> FALSE, detector |-> detector, regex |-> regex]

\* a sanitize that raises where the last branch would return the text
SanitizeCallsFailClosed(en, g, text, may_raise) ==
    IF ~en \/ text = <<>> THEN {SanitizeCall(text, "none", <<>>)}
    ELSE IF g # "None"
    THEN {SanitizeCall(GuardValidate(text), "ok", <<>>)}
         \cup (IF may_raise
               THEN {SanitizeCall(SanitizeRegex(text), "raised", <<"ok">>),
                     [SanitizeCall(<<>>, "raised", <<"raised">>) EXCEPT !.raised = TRUE]}
               ELSE {})
    ELSE {SanitizeCall(SanitizeRegex(text), "none", <<"ok">>)}
         \cup (IF may_raise
               THEN {SanitizeCall(SanitizeRegex(text), "none", <<"raised", "ok">>),
                     [SanitizeCall(<<>>, "none", <<"raised", "raised">>)
                         EXCEPT !.raised = TRUE]}
               ELSE {})

\* a sanitize that redacts whether the guard is enabled or not
SanitizeCallsAlwaysOn(en, g, text, may_raise) ==
    IF text = <<>> THEN {SanitizeCall(text, "none", <<>>)}
    ELSE {SanitizeCall(SanitizeRegex(text), "none", <<"ok">>)}

\* PIIGuard.sanitize: the ways a call may go.  Disabled or empty text: the text
\* itself, nothing is consulted.  With a detector: its output, or, when it
\* throws, the regex fallback of the same text.  Without: the regex redaction,
\* tried once more in the except branch when it throws.  When the regex of the
\* except branch throws, the text itself is returned.  Nothing throws unless
\* may_raise.
SanitizeCalls(en, g, text, may_raise) ==
    IF ~en \/ text = <<>> THEN {SanitizeCall(text, "none", <<>>)}
    ELSE IF g # "None"
    THEN {SanitizeCall(GuardValidate(text), "ok", <<>>)}
         \cup (IF may_raise
               THEN {SanitizeCall(SanitizeRegex(text), "raised", <<"ok">>),
                     SanitizeCall(text, "raised", <<"raised">>)}
               ELSE {})
    ELSE {SanitizeCall(SanitizeRegex(text), "none", <<"ok">>)}
         \cup (IF may_raise
               THEN {SanitizeCall(SanitizeRegex(text), "none", <<"raised", "ok">>),
                     SanitizeCall(text, "none", <<"raised", "raised">>)}
               ELSE {})

\* whether re.sub raised in the call
RegexRaised(call) == \E i \in 1..Len(call.regex) : call.regex[i] = "raised"

\* the call went through its last branch and returned the text as it was given
FailedOpen(call) == call.regex # <<>> /\ call.regex[Len(call.regex)] = "raised"

\* 1 when the detector or re.sub raised in the call, 0 when nothing did
CallFaults(call) == IF call.detector = "raised" \/ RegexRaised(call) THEN 1 ELSE 0

\* the values a call of sanitize may return
SanitizeOutcomesOf(en, g, text) == {c.value : c \in SanitizeCalls(en, g, text, TRUE)}

SanitizeOutcomes(text) == SanitizeOutcomesOf(enabled, guard, text)

HasKind(text, kinds) == \E i \in 1..Len(text) : TokenKind(text[i]) \in kinds

PatternKinds == {PII_PATTERNS[k] : k \in 1..Len(PII_PATTERNS)}

\* the globals of guardrails.py when the module has been imported; imports and
\* inits count the import attempts and the runs of PIIGuard.__init__ so far
FreshGlobals ==
    [GUARDRAILS_AVAILABLE |-> FALSE, import_tried |-> FALSE, guard_instance |-> "None",
     imports |-> 0, inits |-> 0]

\* _try_import_guardrails: the globals after the call and what it returns; the
\* import is attempted only when it has not been attempted before
TryImportGuardrails(gl) ==
    IF gl.GUARDRAILS_AVAILABLE THEN {[globals |-> gl, result |-> TRUE]}
    ELSE IF gl.import_tried THEN {[globals |-> gl, result |-> FALSE]}
    ELSE {[globals |-> [gl EXCEPT !.GUARDRAILS_AVAILABLE = ok,
                                  !.import_tried = TRUE,
                                  !.imports = @ + 1],
           result |-> ok] : ok \in BOOLEAN}

\* PIIGuard.__init__(): GUARDRAILS_ENABLED is "true" or not; when it is, the
\* detector is built if guardrails can be imported and Guard().use(...) does
\* not raise
PIIGuardInit(gl) ==
    {[globals |-> gl, enabled |-> FALSE, guard |-> "None"]}
    \cup UNION {IF t.result
                THEN {[globals |-> t.globals, enabled |-> TRUE, guard |-> g] :
                         g \in {"Guard", "None"}}
                ELSE {[globals |-> t.globals, enabled |-> TRUE, guard |-> "None"]} :
                t \in TryImportGuardrails(gl)}

\* a get_guard that builds a guard on every call
GetGuardOutcomesEager(gl, en, g) ==
    {[o EXCEPT !.globals.guard_instance = "PIIGuard", !.globals.inits = @ + 1] :
        o \in PIIGuardInit(gl)}

\* get_guard(): the guard is built on the first call and handed out from then on
GetGuardOutcomes(gl, en, g) ==
    IF gl.guard_instance = "None"
    THEN {[o EXCEPT !.globals.guard_instance = "PIIGuard", !.globals.inits = @ + 1] :
             o \in PIIGuardInit(gl)}
    ELSE {[globals |-> gl, enabled |-> en, guard |-> g]}

(***************************************************************************)
(* MemoryManager.                                                          *)
(***************************************************************************)
Entry(q, r) == [query |-> q, response |-> r]

\* the file after json.dump(self.memory) went through
Saved(mem) == [content |-> "array", entries |-> mem]

\* the file after open(MEMORY_FILE, "w") truncated it and the write failed
Truncated == [content |-> "empty", entries |-> <<>>]

\* MEMORY_FILE is not there; it holds text that is no JSON; it holds bytes that
\* are no text in the encoding open() reads with
MissingFile == [content |-> "missing", entries |-> <<>>]
GarbledFile == [content |-> "garbled", entries |-> <<>>]
UndecodableFile == [content |-> "undecodable", entries |-> <<>>]

\* MEMORY_FILE holds a JSON array whose one element is no memory entry
NotEntriesFile == [content |-> "array", entries |-> <<[note |-> <<"x">>]>>]

\* MemoryManager.__init__ from MEMORY_FILE.exists() on: the log it starts with,
\* or the exception it raises.  json.load raises JSONDecodeError, which is
\* caught, on an empty or garbled file, and UnicodeDecodeError, which is not
\* caught, when the bytes cannot be decoded.
LoadOutcome(f) ==
    CASE f.content = "missing" -> [memory |-> <<>>, raised |-> FALSE, error |-> ""]
      [] f.content = "array" -> [memory |-> f.entries, raised |-> FALSE, error |-> ""]
      [] f.content \in {"empty", "garbled"} -> [memory |-> <<>>, raised |-> FALSE, error |-> ""]
      [] f.content = "undecodable" ->
             [memory |-> <<>>, raised |-> TRUE, error |-> "UnicodeDecodeError"]

\* a save that writes the newest entry behind what the file holds
SaveOutcomesAppending(mem, f, may_fail) ==
    {[file |-> [content |-> "array",
                entries |-> f.entries \o (IF mem = <<>> THEN <<>> ELSE <<mem[Len(mem)]>>)],
      raised |-> FALSE]}
    \cup (IF may_fail THEN {[file |-> f, raised |-> TRUE]} ELSE {})

\* MemoryManager._save: the file after the call, and whether the call raised.
\* A failure before open() leaves the file as it was; one after it leaves the
\* file truncated.
SaveOutcomes(mem, f, may_fail) ==
    {[file |-> Saved(mem), raised |-> FALSE]}
    \cup (IF may_fail THEN {[file |-> f, raised |-> TRUE], [file |-> Truncated, raised |-> TRUE]}
          ELSE {})

\* a log that puts the newest entry first
AppendEntryInFront(mem, q, r) == <<Entry(q, r)>> \o mem

\* a log that keeps a rolling window and drops the oldest entry
AppendEntryRolling(mem, q, r) ==
    IF Len(mem) >= 3 THEN Append(Tail(mem), Entry(q, r)) ELSE Append(mem, Entry(q, r))

\* self.memory.append({"query": ..., "response": ...})
AppendEntry(mem, q, r) == Append(mem, Entry(q, r))

\* a window of the oldest entries
GetRecentContextOldest(mem, n) == SubSeq(mem, 1, IF n < Len(mem) THEN n ELSE Len(mem))

\* self.memory[-n:] for n >= 0: Python reads -0 as 0, the start of the list
GetRecentContext(mem, n) ==
    LET start == IF n = 0 THEN 1
                 ELSE IF n >= Len(mem) THEN 1
                 ELSE Len(mem) - n + 1
    IN SubSeq(mem, start, Len(mem))

(***************************************************************************)
(* RAGManager.                                                             *)
(***************************************************************************)
\* rag_retrieve and query_notes ask for n_results = 3 matches by default
N_RESULTS == 3

FALLBACK == "No relevant information found in your knowledge base."
PREAMBLE == "Here are some relevant notes from your knowledge base:"
SEPARATOR == "---"
SOURCE == "[Source:"

Stems == {"a", "b"}

\* file_path.name of the file whose file_path.stem is given
FileName(stem) == CASE stem = "a" -> "a.txt" [] stem = "b" -> "b.txt"

\* ids numbered on from the entries the store already holds
DocIdCounting(stem, i) == <<stem, i + Cardinality(DOMAIN collection)>>

\* f"{file_path.stem}_{i}": the index is a run of digits, so the text is split
\* at its last underscore and the id names one (stem, index) pair
DocId(stem, i) == <<stem, i>>

\* embed_text: the model's vector for a text, the same for the same text
EmbedText(text) == <<"embedding", text>>

\* the record ingest_folder stores for chunk i (counted from 0) of a file
ChunkRecord(stem, i, chunk) ==
    [document |-> chunk,
     embedding |-> EmbedText(chunk),
     metadata |-> [filename |-> FileName(stem), chunk_index |-> i]]

\* collection.add(ids=[id], ...): Chroma's add keeps the stored record when the
\* id is already there (it neither raises nor overwrites; upsert would overwrite)
CollectionAdd(coll, id, rec) ==
    [x \in DOMAIN coll \cup {id} |-> IF x \in DOMAIN coll THEN coll[x] ELSE rec]

\* an ingestion that deletes what the store holds of a file before it adds the
\* file's chunks
AddChunksReplacing(coll, stem, chunks, upto) ==
    LET kept == [id \in {x \in DOMAIN coll : x[1] # stem} |-> coll[id]]
        RECURSIVE Add(_)
        Add(n) == IF n = 0 THEN kept
                  ELSE CollectionAdd(Add(n - 1), DocId(stem, n - 1),
                                     ChunkRecord(stem, n - 1, chunks[n]))
    IN Add(upto)

\* the chunks 1 .. upto of one file, added in order
RECURSIVE AddChunks(_, _, _, _)
AddChunks(coll, stem, chunks, upto) ==
    IF upto = 0 THEN coll
    ELSE CollectionAdd(AddChunks(coll, stem, chunks, upto - 1),
                       DocId(stem, upto - 1),
                       ChunkRecord(stem, upto - 1, chunks[upto]))

\* a loop that stores what it can: the first j chunks of order[k] and every
\* other file in full
IngestFilesSkipping(coll, files, order, k, j) ==
    LET RECURSIVE All(_)
        All(n) == IF n = 0 THEN coll
                  ELSE AddChunks(All(n - 1), order[n], files[order[n]],
                                 IF n = k THEN j ELSE Len(files[order[n]]))
    IN All(Len(order))

\* the loop of ingest_folder over txt_files: the files order[1 .. k-1] in full,
\* then the first j chunks of order[k] (k = Len(order) + 1: every file in full)
RECURSIVE IngestFiles(_, _, _, _, _)
IngestFiles(coll, files, order, k, j) ==
    IF k = 0 THEN coll
    ELSE LET before == IngestFiles(coll, files, order, k - 1,
                                   IF k = 1 THEN 0 ELSE Len(files[order[k - 1]]))
         IN IF k > Len(order) THEN before
            ELSE AddChunks(before, order[k], files[order[k]], j)

\* what collection.query may return for n_results = n: up to n stored records,
\* nearest first; the index is approximate and may return a record twice
RECURSIVE HitLists(_, _)
HitLists(ids, n) ==
    IF n = 0 THEN {<<>>}
    ELSE LET shorter == HitLists(ids, n - 1)
         IN shorter \cup {Append(h, id) : h \in {s \in shorter : Len(s) = n - 1}, id \in ids}

\* the dict collection.query returns for one query embedding: its keys, and one
\* list of documents and one of metadata records for the query
QueryResult(coll, hits) ==
    [keys |-> {"documents", "metadatas"},
     documents |-> << [i \in 1..Len(hits) |-> coll[hits[i]].document] >>,
     metadatas |-> << [i \in 1..Len(hits) |-> coll[hits[i]].metadata] >>]

\* the shapes the code provides for besides: a key is missing, an outer list is
\* empty, the list of metadata records is empty, one list is shorter than the
\* other
OddShapes(r) ==
    {[r EXCEPT !.keys = {"metadatas"}, !.documents = <<>>],
     [r EXCEPT !.documents = <<>>],
     [r EXCEPT !.keys = {"documents"}, !.metadatas = <<>>],
     [r EXCEPT !.metadatas = <<>>],
     [r EXCEPT !.metadatas = << <<>> >>],
     [r EXCEPT !.metadatas = << SubSeq(r.metadatas[1], 1, Len(r.metadatas[1]) - 1) >>],
     [r EXCEPT !.documents = << SubSeq(r.documents[1], 1, Len(r.documents[1]) - 1) >>]}

QueryOutcomes(coll, n) ==
    LET regular == {QueryResult(coll, h) : h \in HitLists(DOMAIN coll, n)}
    IN regular \cup UNION {OddShapes(r) : r \in regular}

\* results.get(key): None when the key is missing, which the code only tests
\* for truth, as it tests an empty list
ResultsGet(results, key) == IF key \in results.keys THEN results[key] ELSE <<>>

Min(a, b) == IF a < b THEN a ELSE b

\* doc.strip()
RECURSIVE Strip(_)
Strip(doc) ==
    IF doc = <<>> THEN doc
    ELSE IF Head(doc) = WS THEN Strip(Tail(doc))
    ELSE IF doc[Len(doc)] = WS THEN Strip(SubSeq(doc, 1, Len(doc) - 1))
    ELSE doc

\* f"[Source: {filename}]\n{doc.strip()}\n"
Block(doc, meta) == <<SOURCE, meta.filename>> \o Strip(doc)

\* "\n---\n".join(context_blocks)
RECURSIVE Join(_)
Join(blocks) ==
    IF blocks = <<>> THEN <<>>
    ELSE IF Len(blocks) = 1 THEN blocks[1]
    ELSE blocks[1] \o <<SEPARATOR>> \o Join(Tail(blocks))

\* the blocks rag_retrieve formats: one per pair of zip(docs_list, metas_list)
ContextBlocks(docs, metas) ==
    [i \in 1..Min(Len(docs), Len(metas)) |-> Block(docs[i], metas[i])]

\* a context that is wrapped in the preamble whatever the store returned
RagFormatAlwaysWraps(results) ==
    LET documents_list == ResultsGet(results, "documents")
        metadatas_list == ResultsGet(results, "metadatas")
        docs_list == IF documents_list # <<>> THEN documents_list[1] ELSE <<>>
        metas_list == IF metadatas_list # <<>> THEN metadatas_list[1] ELSE <<>>
    IN <<PREAMBLE>> \o Join(ContextBlocks(docs_list, metas_list))

\* a context with one block for every document, named "Unknown file" when the
\* document has no metadata record
RagFormatBlockPerDocument(results) ==
    LET documents_list == ResultsGet(results, "documents")
        metadatas_list == ResultsGet(results, "metadatas")
    IN IF documents_list = <<>> THEN <<FALLBACK>>
       ELSE IF documents_list[1] = <<>> THEN <<FALLBACK>>
       ELSE LET docs_list == documents_list[1]
                metas_list == IF metadatas_list # <<>> THEN metadatas_list[1] ELSE <<>>
            IN <<PREAMBLE>> \o
               Join([i \in 1..Len(docs_list) |->
                       Block(docs_list[i],
                             IF i <= Len(metas_list) THEN metas_list[i]
                             ELSE [filename |-> "Unknown file", chunk_index |-> 0])])

\* rag_retrieve, from the store's results on
RagFormat(results) ==
    LET documents_list == ResultsGet(results, "documents")
        metadatas_list == ResultsGet(results, "metadatas")
    IN IF documents_list = <<>> THEN <<FALLBACK>>
       ELSE IF documents_list[1] = <<>> THEN <<FALLBACK>>
       ELSE LET metas_list == IF metadatas_list # <<>> /\ metadatas_list[1] # <<>>
                              THEN metadatas_list[1] ELSE <<>>
            IN <<PREAMBLE>> \o Join(ContextBlocks(documents_list[1], metas_list))

\* the values rag_retrieve(query) may return; embedding the query or the
\* store's query may raise instead
RagRetrieveOutcomes(coll) == {RagFormat(r) : r \in QueryOutcomes(coll, N_RESULTS)}

\* f"{meta['filename']}_{meta['chunk_index']}"
DedupKey(meta) == <<meta.filename, meta.chunk_index>>

\* the matches query_notes prints: the first of each key, in order
RECURSIVE PrintedFrom(_, _, _)
PrintedFrom(metas, k, seen) ==
    IF k > Len(metas) THEN <<>>
    ELSE IF DedupKey(metas[k]) \in seen THEN PrintedFrom(metas, k + 1, seen)
    ELSE <<metas[k].filename>> \o PrintedFrom(metas, k + 1, seen \cup {DedupKey(metas[k])})

QueryNotesPrinted(results) ==
    LET documents == ResultsGet(results, "documents")
        metadatas == ResultsGet(results, "metadatas")
        docs == IF documents # <<>> THEN documents[1] ELSE <<>>
        metas == IF metadatas # <<>> THEN metadatas[1] ELSE <<>>
    IN PrintedFrom(SubSeq(metas, 1, Min(Len(docs), Len(metas))), 1, {})

\* how many blocks a formatted context holds
RECURSIVE CountToken(_, _)
CountToken(text, tok) ==
    IF text = <<>> THEN 0
    ELSE (IF Head(text) = tok THEN 1 ELSE 0) + CountToken(Tail(text), tok)

(***************************************************************************)
(* ThoughtAgent.                                                           *)
(***************************************************************************)
\* get_recent_context() is called with its default n = 3
MEMORY_WINDOW == 3

NO_MEMORY == "No previous memory yet."

\* "\n".join([f"User: {m['query']}\nAgent: {m['response']}" for m in past_memory])
RECURSIVE RenderMemory(_)
RenderMemory(past) ==
    IF past = <<>> THEN <<>>
    ELSE <<"User:">> \o Head(past).query \o <<"Agent:">> \o Head(past).response
         \o RenderMemory(Tail(past))

MemoryContext(past) == IF past # <<>> THEN RenderMemory(past) ELSE <<NO_MEMORY>>

\* combined_input
CombinedInput(memory_context, rag_context, sanitized_prompt) ==
    <<"Memory Context:">> \o memory_context
    \o <<"Knowledge Context (RAG):">> \o rag_context
    \o <<"User Query:">> \o sanitized_prompt

\* what the caller may type, and what the model may answer
Prompts == {<<"a@b.com", "Alice">>}
LLMAnswers == {<<"ok", "555-123-4567">>}

NoFrame ==
    [user_prompt |-> <<>>, sanitized_prompt |-> <<>>, rag_query |-> <<>>,
     rag_raw |-> <<>>, rag_context |-> <<>>, past_memory |-> <<>>,
     memory_raw |-> <<>>, memory_context |-> <<>>, combined_input |-> <<>>,
     llm_input |-> <<>>, response |-> <<>>, answer |-> <<>>,
     stored |-> <<>>, raised_at |-> "", failed_open |-> FALSE,
     memory_before |-> <<>>, file_before |-> Saved(<<>>)]

NoRet == [op |-> "none"]

\* no second MemoryManager has been constructed
NoOther == [constructed |-> FALSE, memory |-> <<>>]

\* agent.run(user_prompt) is entered
StartRun ==
    /\ pc = "IDLE"
    /\ Len(memory) < MaxLog
    /\ \E p \in Prompts :
         frame' = [NoFrame EXCEPT !.user_prompt = p,
                                  !.memory_before = memory,
                                  !.file_before = file]
    /\ pc' = "SANITIZING_INPUT"
    /\ ret' = NoRet
    /\ UNCHANGED <<other, globals, enabled, guard, memory, file, faults, collection, folder, ingested>>

\* sanitized_prompt = self.pii_guard.sanitize(user_prompt)
SanitizeInput ==
    /\ pc = "SANITIZING_INPUT"
    /\ \E c \in SanitizeCalls(enabled, guard, frame.user_prompt, faults < MaxFaults) :
         /\ frame' = [frame EXCEPT !.sanitized_prompt = c.value,
                                   !.failed_open = @ \/ FailedOpen(c)]
         /\ faults' = faults + CallFaults(c)
    /\ pc' = "RETRIEVING_CONTEXT"
    /\ UNCHANGED <<other, globals, enabled, guard, memory, file, collection, folder, ingested, ret>>

\* retrieval asked with what the user typed
RetrievalQueryRaw(f) == f.user_prompt

\* the text run hands to rag_retrieve
RetrievalQuery(f) == f.sanitized_prompt

\* rag_context = sanitize(self.rag_manager.rag_retrieve(sanitized_prompt))
RetrieveContext ==
    /\ pc = "RETRIEVING_CONTEXT"
    /\ \/ \E raw \in RagRetrieveOutcomes(collection) :
            \E c \in SanitizeCalls(enabled, guard, raw, faults < MaxFaults) :
              /\ frame' = [frame EXCEPT !.rag_query = RetrievalQuery(frame),
                                        !.rag_raw = raw,
                                        !.rag_context = c.value,
                                        !.failed_open = @ \/ FailedOpen(c)]
              /\ faults' = faults + CallFaults(c)
              /\ pc' = "RECALLING_MEMORY"
       \/ /\ frame' = [frame EXCEPT !.rag_query = RetrievalQuery(frame),
                                    !.raised_at = pc]
          /\ faults' = faults
          /\ pc' = "FAILED"
    /\ UNCHANGED <<other, globals, enabled, guard, memory, file, collection, folder, ingested, ret>>

\* past_memory = self.memory.get_recent_context(); memory_context = sanitize(...)
RecallMemory ==
    /\ pc = "RECALLING_MEMORY"
    /\ LET past == GetRecentContext(memory, MEMORY_WINDOW)
       IN \E c \in SanitizeCalls(enabled, guard, MemoryContext(past), faults < MaxFaults) :
            /\ frame' = [frame EXCEPT !.past_memory = past,
                                      !.memory_raw = MemoryContext(past),
                                      !.memory_context = c.value,
                                      !.failed_open = @ \/ FailedOpen(c)]
            /\ faults' = faults + CallFaults(c)
    /\ pc' = "COMPOSING_PROMPT"
    /\ UNCHANGED <<other, globals, enabled, guard, memory, file, collection, folder, ingested, ret>>

ComposePrompt ==
    /\ pc = "COMPOSING_PROMPT"
    /\ frame' = [frame EXCEPT !.combined_input =
                    CombinedInput(frame.memory_context, frame.rag_context,
                                  frame.sanitized_prompt)]
    /\ pc' = "INVOKING_MODEL"
    /\ UNCHANGED <<other, globals, enabled, guard, memory, file, faults, collection, folder, ingested, ret>>

\* a run that records the exchange before it has the model's answer
InvokeModelStoresFirst ==
    /\ pc = "INVOKING_MODEL"
    /\ memory' = Append(memory, Entry(frame.sanitized_prompt, <<>>))
    /\ file' = Saved(memory')
    /\ \/ \E a \in LLMAnswers :
            /\ frame' = [frame EXCEPT !.llm_input = frame.combined_input,
                                      !.response = a]
            /\ pc' = "SANITIZING_OUTPUT"
       \/ /\ frame' = [frame EXCEPT !.llm_input = frame.combined_input,
                                    !.raised_at = pc]
          /\ pc' = "FAILED"
    /\ UNCHANGED <<other, globals, enabled, guard, faults, collection, folder, ingested, ret>>

\* a run that catches the model's exception and goes on with an empty answer
InvokeModelSwallows ==
    /\ pc = "INVOKING_MODEL"
    /\ \/ \E a \in LLMAnswers :
            /\ frame' = [frame EXCEPT !.llm_input = frame.combined_input,
                                      !.response = a]
       \/ /\ frame' = [frame EXCEPT !.llm_input = frame.combined_input,
                                    !.raised_at = pc]
    /\ pc' = "SANITIZING_OUTPUT"
    /\ UNCHANGED <<other, globals, enabled, guard, memory, file, faults, collection, folder, ingested, ret>>

\* response = self.agent.run_sync(combined_input): an answer, or an exception,
\* which run records on its span and raises again
InvokeModel ==
    /\ pc = "INVOKING_MODEL"
    /\ \/ \E a \in LLMAnswers :
            /\ frame' = [frame EXCEPT !.llm_input = frame.combined_input,
                                      !.response = a]
            /\ pc' = "SANITIZING_OUTPUT"
       \/ /\ frame' = [frame EXCEPT !.llm_input = frame.combined_input,
                                    !.raised_at = pc]
          /\ pc' = "FAILED"
    /\ UNCHANGED <<other, globals, enabled, guard, memory, file, faults, collection, folder, ingested, ret>>

\* answer = self.pii_guard.sanitize(answer)
SanitizeOutput ==
    /\ pc = "SANITIZING_OUTPUT"
    /\ \E c \in SanitizeCalls(enabled, guard, frame.response, faults < MaxFaults) :
         /\ frame' = [frame EXCEPT !.answer = c.value,
                                   !.failed_open = @ \/ FailedOpen(c)]
         /\ faults' = faults + CallFaults(c)
    /\ pc' = "PERSISTING_MEMORY"
    /\ UNCHANGED <<other, globals, enabled, guard, memory, file, collection, folder, ingested, ret>>

\* an add_entry that reads the file again and appends to what it holds
AddEntryOutcomesReloading(mem, f, budget, user_query, response) ==
    UNION {UNION {{[memory |-> AppendEntry(LoadOutcome(f).memory, q.value, r.value),
                    file |-> sv.file,
                    raised |-> sv.raised,
                    sanitized |-> <<q, r>>,
                    faults |-> CallFaults(q) + CallFaults(r) + (IF sv.raised THEN 1 ELSE 0)] :
                      sv \in SaveOutcomes(AppendEntry(LoadOutcome(f).memory, q.value, r.value), f,
                                          CallFaults(q) + CallFaults(r) < budget)} :
                  r \in SanitizeCalls(enabled, guard, response, CallFaults(q) < budget)} :
           q \in SanitizeCalls(enabled, guard, user_query, 0 < budget)}

\* an add_entry that takes the entry out of the log again when the save raises
AddEntryOutcomesAtomic(mem, f, budget, user_query, response) ==
    UNION {UNION {{[memory |-> IF sv.raised THEN mem ELSE AppendEntry(mem, q.value, r.value),
                    file |-> sv.file,
                    raised |-> sv.raised,
                    sanitized |-> <<q, r>>,
                    faults |-> CallFaults(q) + CallFaults(r) + (IF sv.raised THEN 1 ELSE 0)] :
                      sv \in SaveOutcomes(AppendEntry(mem, q.value, r.value), f,
                                          CallFaults(q) + CallFaults(r) < budget)} :
                  r \in SanitizeCalls(enabled, guard, response, CallFaults(q) < budget)} :
           q \in SanitizeCalls(enabled, guard, user_query, 0 < budget)}

\* MemoryManager.add_entry(user_query, response): both are sanitized, the entry
\* is appended, then the whole log is saved.  Each outcome: the log and the file
\* after the call, whether _save raised, the two calls of sanitize and the
\* faults used, of which there are at most budget.
AddEntryOutcomes(mem, f, budget, user_query, response) ==
    UNION {UNION {{[memory |-> AppendEntry(mem, q.value, r.value),
                    file |-> sv.file,
                    raised |-> sv.raised,
                    sanitized |-> <<q, r>>,
                    faults |-> CallFaults(q) + CallFaults(r) + (IF sv.raised THEN 1 ELSE 0)] :
                      sv \in SaveOutcomes(AppendEntry(mem, q.value, r.value), f,
                                          CallFaults(q) + CallFaults(r) < budget)} :
                  r \in SanitizeCalls(enabled, guard, response, CallFaults(q) < budget)} :
           q \in SanitizeCalls(enabled, guard, user_query, 0 < budget)}

\* the arguments run gives add_entry
StoredPair(f) == <<f.sanitized_prompt, f.answer>>

\* self.memory.add_entry(sanitized_prompt, answer)
PersistMemory ==
    /\ pc = "PERSISTING_MEMORY"
    /\ \E o \in AddEntryOutcomes(memory, file, MaxFaults - faults,
                                  StoredPair(frame)[1], StoredPair(frame)[2]) :
         /\ memory' = o.memory
         /\ file' = o.file
         /\ faults' = faults + o.faults
         /\ frame' = [frame EXCEPT !.stored = StoredPair(frame),
                                   !.raised_at = IF o.raised THEN pc ELSE "",
                                   !.failed_open = @ \/ FailedOpen(o.sanitized[1])
                                                     \/ FailedOpen(o.sanitized[2])]
         /\ pc' = IF o.raised THEN "FAILED" ELSE "DONE"
    /\ UNCHANGED <<other, globals, enabled, guard, collection, folder, ingested, ret>>

\* run returns the answer, or the exception reaches the caller
Return ==
    /\ pc \in {"DONE", "FAILED"}
    /\ ret' = [op |-> "run", raised |-> (pc = "FAILED"),
               value |-> IF pc = "DONE" THEN frame.answer ELSE <<>>]
    /\ pc' = "IDLE"
    /\ frame' = NoFrame
    /\ UNCHANGED <<other, globals, enabled, guard, memory, file, faults, collection, folder, ingested>>

(***************************************************************************)
(* The memory manager called directly (agent.memory, agent.clear_memory).  *)
(***************************************************************************)
AddEntry ==
    /\ pc = "IDLE"
    /\ Len(memory) < MaxLog
    /\ \E uq \in Prompts, resp \in LLMAnswers :
         \E o \in AddEntryOutcomes(memory, file, MaxFaults - faults, uq, resp) :
           /\ memory' = o.memory
           /\ file' = o.file
           /\ faults' = faults + o.faults
           /\ ret' = [op |-> "add_entry", raised |-> o.raised, value |-> <<>>,
                      args |-> <<uq, resp>>, sanitized |-> o.sanitized]
    /\ UNCHANGED <<other, globals, enabled, guard, collection, folder, ingested, pc, frame>>

GetRecent ==
    /\ pc = "IDLE"
    /\ \E n \in 0..MaxN :
         ret' = [op |-> "get_recent_context", raised |-> FALSE, n |-> n,
                 value |-> GetRecentContext(memory, n)]
    /\ UNCHANGED <<other, globals, enabled, guard, memory, file, faults, collection, folder, ingested, pc, frame>>

\* a clear that empties the log in memory and leaves the file alone
ClearMemoryNoSave ==
    /\ pc = "IDLE"
    /\ memory' = <<>>
    /\ ret' = [op |-> "clear", raised |-> FALSE, value |-> <<>>, cleared |-> Len(memory)]
    /\ UNCHANGED <<other, globals, enabled, guard, file, faults, collection, folder, ingested, pc, frame>>

\* MemoryManager.clear, which ThoughtAgent.clear_memory passes through to
ClearMemory ==
    /\ pc = "IDLE"
    /\ memory' = <<>>
    /\ \E sv \in SaveOutcomes(<<>>, file, faults < MaxFaults) :
         /\ file' = sv.file
         /\ faults' = IF sv.raised THEN faults + 1 ELSE faults
         /\ ret' = [op |-> "clear", raised |-> sv.raised, value |-> <<>>,
                    cleared |-> Len(memory)]
    /\ UNCHANGED <<other, globals, enabled, guard, collection, folder, ingested, pc, frame>>

(***************************************************************************)
(* The agent and its memory.                                               *)
(***************************************************************************)
EmptyCollection == [x \in {} |-> x]

\* a note whose only chunk holds an address
NoteWithPII == <<"mail", "a@b.com", WS>>

NoFolder == [exists |-> TRUE, files |-> [x \in {} |-> x]]

\* folder_path names nothing
MissingFolder == [exists |-> FALSE, files |-> [x \in {} |-> x]]
NotIngested == [done |-> FALSE, files |-> [x \in {} |-> x], ids |-> {}]

\* the guard after ThoughtAgent() has been constructed, which calls get_guard():
\* the guard is on or off; on, it holds the guardrails-ai detector if that
\* could be imported and built
GuardStates == GetGuardOutcomes(FreshGlobals, FALSE, "None")

Init ==
    /\ \E g \in GuardStates :
         globals = g.globals /\ enabled = g.enabled /\ guard = g.guard
    /\ memory = <<>>
    /\ file = Saved(<<>>)
    /\ faults = 0
    /\ collection \in {EmptyCollection, AddChunks(EmptyCollection, "a", <<NoteWithPII>>, 1)}
    /\ folder = NoFolder
    /\ ingested = NotIngested
    /\ pc = "IDLE"
    /\ frame = NoFrame
    /\ ret = NoRet
    /\ other = NoOther

Next ==
    \/ StartRun
    \/ SanitizeInput
    \/ RetrieveContext
    \/ RecallMemory
    \/ ComposePrompt
    \/ InvokeModel
    \/ SanitizeOutput
    \/ PersistMemory
    \/ Return
    \/ AddEntry
    \/ GetRecent
    \/ ClearMemory

Spec == Init /\ [][Next]_vars

(***************************************************************************)
(* Properties of the agent and its memory (checked under Spec).            *)
(***************************************************************************)
RunOrder ==
    <<"SANITIZING_INPUT", "RETRIEVING_CONTEXT", "RECALLING_MEMORY", "COMPOSING_PROMPT",
      "INVOKING_MODEL", "SANITIZING_OUTPUT", "PERSISTING_MEMORY", "DONE">>

StepNo(p) == IF p = "IDLE" THEN 0 ELSE CHOOSE k \in 1..Len(RunOrder) : RunOrder[k] = p

\* the run has gone through the given step, or raised in it
Past(step) ==
    IF pc = "FAILED" THEN StepNo(frame.raised_at) >= StepNo(step)
    ELSE StepNo(pc) > StepNo(step)

IsPrefix(a, b) == Len(a) <= Len(b) /\ SubSeq(b, 1, Len(a)) = a

ModelFailed == pc = "FAILED" /\ frame.raised_at = "INVOKING_MODEL"

\* C1: when the LLM call raises, the run fails with the log and the memory file
\* exactly as they were when the run started, and the caller gets the exception.
C1_ModelFailureWritesNothing ==
    [][/\ ModelFailed' => (memory' = frame'.memory_before /\ file' = frame'.file_before)
       /\ (ModelFailed /\ pc' # pc) =>
            /\ ret'.op = "run" /\ ret'.raised
            /\ memory' = frame.memory_before
            /\ file' = frame.file_before]_vars

C1_Witness == ModelFailed /\ frame.memory_before # <<>>

\* C2 as claimed: after a run that returns normally the log is the log before
\* the run plus one entry, which is exactly (sanitized_prompt, answer).
C2_EntryIsPromptAndAnswer ==
    pc = "DONE" =>
        memory = Append(frame.memory_before, Entry(frame.sanitized_prompt, frame.answer))

\* C2, amended: after a run that returns normally the log is the log before the
\* run plus one entry at its end, whose query and response are add_entry's
\* redactions of the sanitized prompt and of the answer the caller gets; they
\* are the sanitized prompt and the answer themselves whenever the guard is
\* off or redacts by pattern and no call of sanitize in the run has failed open.
C2_EntryIsRedactionOfPromptAndAnswer ==
    pc = "DONE" =>
        /\ \E q \in SanitizeOutcomes(frame.sanitized_prompt),
              r \in SanitizeOutcomes(frame.answer) :
             memory = Append(frame.memory_before, Entry(q, r))
        /\ (guard = "None" /\ ~frame.failed_open) =>
             memory = Append(frame.memory_before,
                             Entry(frame.sanitized_prompt, frame.answer))

C2_Witness ==
    /\ pc = "DONE"
    /\ guard = "Guard"
    /\ frame.memory_before # <<>>
    /\ memory[Len(memory)].query # frame.sanitized_prompt

\* C3: a run goes through its steps in the fixed order, one at a time; a step
\* that raises takes the run to FAILED, from where nothing but the return to
\* the caller follows, and that return carries the exception.
C3_StepsInOrder ==
    [][/\ pc' # pc =>
            \/ pc = "IDLE" /\ pc' = RunOrder[1]
            \/ \E k \in 1..(Len(RunOrder) - 1) : pc = RunOrder[k] /\ pc' = RunOrder[k + 1]
            \/ /\ pc \notin {"IDLE", "DONE", "FAILED"}
               /\ pc' = "FAILED"
               /\ frame'.raised_at = pc
            \/ /\ pc \in {"DONE", "FAILED"}
               /\ pc' = "IDLE"
               /\ ret'.op = "run"
               /\ ret'.raised = (pc = "FAILED")
       /\ (frame'.raised_at # "") <=> (pc' = "FAILED")]_vars

C3_Witness == pc = "FAILED" /\ frame.raised_at = "PERSISTING_MEMORY"

C6_RecentIsLastN ==
    ret.op = "get_recent_context" =>
        ret.value = IF Len(memory) < ret.n THEN memory
                    ELSE SubSeq(memory, Len(memory) - ret.n + 1, Len(memory))

\* C7: no step but a clear changes or removes an entry of the log: the log
\* before an append, a recent or a step of a run is a prefix of the log after.
C7_AppendOnly == [][ClearMemory \/ IsPrefix(memory, memory')]_vars

C7_Witness == Len(memory) >= MEMORY_WINDOW + 1 /\ ret.op = "get_recent_context"

Cleared == memory = <<>> /\ file = Saved(<<>>)

\* C8: a clear that returns leaves the log empty and the file holding the empty
\* log, however many entries there were; from then until the next append (or a
\* later clear whose write fails) the log and the file stay so and recent(n) is
\* empty for every n.
C8_ClearEmptiesLogAndFile ==
    [][/\ (ClearMemory /\ ~ret'.raised) => Cleared'
       /\ (Cleared /\ ~AddEntry /\ ~PersistMemory /\ ~(ClearMemory /\ ret'.raised)) => Cleared'
       /\ (Cleared /\ GetRecent) => ret'.value = <<>>]_vars

C8_Witness ==
    /\ ret.op = "clear"
    /\ ~ret.raised
    /\ ret.cleared >= 2
    /\ Cleared

\* C17: after an add_entry (called directly or as the last step of a run) or a
\* clear that returns, the file holds the whole log, entry for entry; the entry
\* add_entry appends holds what sanitize returned for its two arguments, which
\* with the guard on holds no text a pattern matches unless that call of
\* sanitize failed open.
C17_FileHoldsWholeLog ==
    /\ (ret.op \in {"add_entry", "clear"} /\ ~ret.raised) => file = Saved(memory)
    /\ pc = "DONE" => file = Saved(memory)
    /\ ret.op = "clear" => memory = <<>>
    /\ ret.op = "add_entry" =>
          /\ memory # <<>>
          /\ memory[Len(memory)]
                = Entry(ret.sanitized[1].value, ret.sanitized[2].value)
          /\ \A i \in 1..2 :
                /\ ret.sanitized[i] \in SanitizeCalls(enabled, guard, ret.args[i], TRUE)
                /\ (enabled /\ ~FailedOpen(ret.sanitized[i])) =>
                      ~HasKind(ret.sanitized[i].value, PatternKinds)

C17_Witness ==
    /\ ret.op = "add_entry"
    /\ ~ret.raised
    /\ enabled
    /\ Len(memory) >= 3
    /\ HasKind(ret.args[1], PatternKinds)
    /\ HasKind(ret.args[2], PatternKinds)
    /\ ~HasKind(memory[Len(memory)].query \o memory[Len(memory)].response, PatternKinds)
    /\ file = Saved(memory)

\* the last n entries of a log, all of them when there are fewer
LastEntries(log, n) ==
    IF Len(log) <= n THEN log ELSE [i \in 1..n |-> log[Len(log) - n + i]]

\* C19: the memory block of a run's prompt is rendered from the last 3 entries
\* of the log as it was when the run started (all of them if fewer), oldest
\* first, and is the literal "No previous memory yet." when that log was empty;
\* the log does not change before the run's own append, so the entry the run
\* writes is not in its prompt.
C19_PromptUsesLastThree ==
    /\ (pc \notin {"IDLE", "DONE", "FAILED"}) => memory = frame.memory_before
    /\ Past("RECALLING_MEMORY") =>
          /\ Len(frame.past_memory) <= 3
          /\ frame.past_memory = LastEntries(frame.memory_before, 3)
          /\ frame.memory_raw = IF frame.memory_before = <<>> THEN <<NO_MEMORY>>
                                 ELSE RenderMemory(frame.past_memory)
          /\ frame.memory_context \in SanitizeOutcomes(frame.memory_raw)
    /\ Past("INVOKING_MODEL") =>
          frame.llm_input = CombinedInput(frame.memory_context, frame.rag_context,
                                          frame.sanitized_prompt)
    /\ pc = "DONE" =>
          /\ Len(memory) = Len(frame.memory_before) + 1
          /\ frame.past_memory = LastEntries(SubSeq(memory, 1, Len(memory) - 1), 3)

C19_Witness ==
    /\ pc = "DONE"
    /\ Len(frame.memory_before) >= 4
    /\ frame.past_memory # SubSeq(frame.memory_before, 1, 3)
    /\ frame.past_memory # SubSeq(memory, Len(memory) - 2, Len(memory))

(***************************************************************************)
(* Ingestion: notes are written to the folder and the folder is ingested.  *)
(***************************************************************************)
\* the chunks the text splitter cuts the sample notes into
ChunkA == <<"notes">>
ChunkB == <<"ideas">>

\* the contents a note may have, as the chunks split_text gives for it
Contents == {<<>>, <<ChunkA>>, <<ChunkB>>, <<ChunkA, NoteWithPII>>}

\* the orders folder.glob("*.txt") may list the files in
Orders(files) ==
    {o \in [1..Cardinality(DOMAIN files) -> DOMAIN files] :
        \A i, j \in DOMAIN o : i # j => o[i] # o[j]}

\* the note <stem>.txt is written, or written again
WriteNote ==
    /\ folder.exists
    /\ \E stem \in Stems, content \in Contents :
         folder' = [folder EXCEPT !.files =
                      [x \in DOMAIN folder.files \cup {stem} |->
                         IF x = stem THEN content ELSE folder.files[x]]]
    /\ ret' = NoRet
    /\ UNCHANGED <<other, globals, enabled, guard, memory, file, faults, collection, ingested, pc, frame>>

\* where ingest_folder may stop: after every file (k = Len(order) + 1, it returns),
\* or at file order[k] with j of its chunks stored, when reading or splitting the
\* file (j = 0) or embedding or adding its chunk j + 1 raises
StopPoints(files, order) ==
    {<<Len(order) + 1, 0>>}
    \cup UNION {{<<k, j>> : j \in {0} \cup 0..(Len(files[order[k]]) - 1)} : k \in 1..Len(order)}

\* the folder is removed with its notes, or made anew
RemoveFolder ==
    /\ folder.exists
    /\ folder' = MissingFolder
    /\ ret' = NoRet
    /\ UNCHANGED <<other, globals, enabled, guard, memory, file, faults, collection, ingested, pc, frame>>

CreateFolder ==
    /\ ~folder.exists
    /\ folder' = NoFolder
    /\ ret' = NoRet
    /\ UNCHANGED <<other, globals, enabled, guard, memory, file, faults, collection, ingested, pc, frame>>

\* the files ingest_folder has opened when it stops at file k of the order
FilesRead(order, k) == SubSeq(order, 1, Min(k, Len(order)))

\* the folder is as it was when ingest_folder last returned, and so is the store
JustIngested ==
    /\ ingested.done
    /\ folder.exists
    /\ ingested.files = folder.files
    /\ ingested.ids = DOMAIN collection

\* an ingest_folder that takes a folder that is not there for one without notes
IngestFolderLenient ==
    /\ pc = "IDLE"
    /\ \E order \in Orders(folder.files) :
         \E stop \in StopPoints(folder.files, order) :
           /\ collection' = IngestFiles(collection, folder.files, order, stop[1], stop[2])
           /\ ret' = [op |-> "ingest_folder", raised |-> (stop[1] <= Len(order)),
                      error |-> IF stop[1] <= Len(order) THEN "Exception" ELSE "",
                      order |-> order, stop |-> stop, read |-> FilesRead(order, stop[1]),
                      again |-> JustIngested]
           /\ ingested' = IF stop[1] <= Len(order) THEN ingested
                          ELSE [done |-> TRUE, files |-> folder.files,
                                ids |-> DOMAIN collection']
    /\ UNCHANGED <<other, globals, enabled, guard, memory, file, faults, folder, pc, frame>>

\* RAGManager.ingest_folder
IngestFolder ==
    /\ pc = "IDLE"
    /\ IF ~folder.exists
       THEN /\ ret' = [op |-> "ingest_folder", raised |-> TRUE,
                       error |-> "FileNotFoundError", order |-> <<>>, stop |-> <<0, 0>>,
                       read |-> <<>>, again |-> FALSE]
            /\ UNCHANGED <<collection, ingested>>
       ELSE \E order \in Orders(folder.files) :
              \E stop \in StopPoints(folder.files, order) :
                /\ collection' = IngestFiles(collection, folder.files, order, stop[1], stop[2])
                /\ ret' = [op |-> "ingest_folder", raised |-> (stop[1] <= Len(order)),
                           error |-> IF stop[1] <= Len(order) THEN "Exception" ELSE "",
                           order |-> order, stop |-> stop,
                           read |-> FilesRead(order, stop[1]), again |-> JustIngested]
                /\ ingested' = IF stop[1] <= Len(order) THEN ingested
                               ELSE [done |-> TRUE, files |-> folder.files,
                                     ids |-> DOMAIN collection']
    /\ UNCHANGED <<other, globals, enabled, guard, memory, file, faults, folder, pc, frame>>

InitIngest ==
    /\ globals = FreshGlobals
    /\ enabled = FALSE
    /\ guard = "None"
    /\ memory = <<>>
    /\ file = Saved(<<>>)
    /\ faults = 0
    /\ collection = EmptyCollection
    /\ folder \in {NoFolder, MissingFolder}
    /\ ingested = NotIngested
    /\ pc = "IDLE"
    /\ frame = NoFrame
    /\ ret = NoRet
    /\ other = NoOther

NextIngest ==
    \/ WriteNote
    \/ RemoveFolder
    \/ CreateFolder
    \/ IngestFolder

SpecIngest == InitIngest /\ [][NextIngest]_vars

\* the step is a call of ingest_folder (every other step clears ret)
Ingests == ret'.op = "ingest_folder"

\* C9 as claimed: when a file whose content changed, with as many chunks as
\* before, is ingested again, the store holds at <stem>_<i> the text and the
\* embedding of the new chunk i.
C9_ReingestOverwrites ==
    [][(Ingests /\ ~ret'.raised /\ ingested.done) =>
          \A stem \in DOMAIN folder.files \cap DOMAIN ingested.files :
             (/\ Len(folder.files[stem]) = Len(ingested.files[stem])
              /\ folder.files[stem] # ingested.files[stem]) =>
                \A i \in 1..Len(folder.files[stem]) :
                   /\ collection'[DocId(stem, i - 1)].document = folder.files[stem][i]
                   /\ collection'[DocId(stem, i - 1)].embedding
                        = EmbedText(folder.files[stem][i])]_vars

\* C10: ingesting again a folder that has not changed since it was ingested
\* changes nothing in the store, and when the call returns the store holds the
\* ids, and as many entries, as after the first time.
C10_IngestIdempotent ==
    [][(Ingests /\ JustIngested) =>
          /\ collection' = collection
          /\ ~ret'.raised =>
               /\ DOMAIN collection' = ingested.ids
               /\ Cardinality(DOMAIN collection') = Cardinality(ingested.ids)
               /\ ingested' = ingested]_vars

C10_Witness ==
    /\ ret.op = "ingest_folder"
    /\ ~ret.raised
    /\ ret.again
    /\ Cardinality(DOMAIN folder.files) = 2
    /\ Cardinality(DOMAIN collection) >= 3

\* C11: ingest_folder on a folder that does not exist raises FileNotFoundError
\* to its caller, opens no file and leaves every entry of the store as it is.
C11_MissingFolderRaises ==
    [][(Ingests /\ ~folder.exists) =>
          /\ ret'.raised
          /\ ret'.error = "FileNotFoundError"
          /\ ret'.read = <<>>
          /\ collection' = collection]_vars

C11_Witness ==
    /\ ret.op = "ingest_folder"
    /\ ret.error = "FileNotFoundError"
    /\ ~folder.exists
    /\ Cardinality(DOMAIN collection) >= 2

\* the place of a file in the order ingest_folder goes through
PlaceIn(order, stem) == CHOOSE i \in 1..Len(order) : order[i] = stem

\* C12: when reading, splitting, embedding or storing fails at chunk j + 1 of the
\* file at place k, the exception reaches the caller, no file after place k is
\* opened, and the store gains nothing of a later file and no chunk of the
\* failing file from j + 1 on; what it held stays as it was.
C12_IngestFailsFast ==
    [][(Ingests /\ folder.exists /\ ret'.stop[1] <= Len(ret'.order)) =>
          LET order == ret'.order
              k == ret'.stop[1]
              j == ret'.stop[2]
          IN /\ ret'.raised
             /\ ret'.read = SubSeq(order, 1, k)
             /\ ingested' = ingested
             /\ \A id \in DOMAIN collection : id \in DOMAIN collection'
                                                /\ collection'[id] = collection[id]
             /\ \A id \in DOMAIN collection' \ DOMAIN collection :
                   /\ PlaceIn(order, id[1]) <= k
                   /\ PlaceIn(order, id[1]) = k => id[2] < j]_vars

C12_Witness ==
    /\ ret.op = "ingest_folder"
    /\ ret.raised
    /\ ret.error = "Exception"
    /\ Len(ret.order) = 2
    /\ ret.stop = <<1, 1>>
    /\ DocId(ret.order[1], 0) \in DOMAIN collection
    /\ DocId(ret.order[1], 1) \notin DOMAIN collection
    /\ folder.files[ret.order[2]] # <<>>
    /\ DocId(ret.order[2], 0) \notin DOMAIN collection

\* the store answers a query with the entry of this id
Retrievable(coll, id) == <<id>> \in HitLists(DOMAIN coll, 1)

\* C24: no step of ingestion takes an entry out of the store.  When a file
\* that gave c chunks at the last ingestion gives c' < c chunks now, the
\* entries <stem>_<c'> .. <stem>_<c-1> are in the store after the call as they
\* were before it and the store still answers with them; when the call stops at
\* a failure, the chunks it stored before the failure are in the store.
C24_IngestNeverRemoves ==
    [][/\ \A id \in DOMAIN collection : id \in DOMAIN collection'
       /\ (Ingests /\ folder.exists /\ ingested.done) =>
            \A stem \in DOMAIN folder.files \cap DOMAIN ingested.files :
               \A i \in 0..(Len(ingested.files[stem]) - 1) :
                  i >= Len(folder.files[stem]) =>
                     /\ DocId(stem, i) \in DOMAIN collection'
                     /\ collection'[DocId(stem, i)] = collection[DocId(stem, i)]
                     /\ Retrievable(collection', DocId(stem, i))
       /\ (Ingests /\ folder.exists /\ ret'.raised) =>
            LET order == ret'.order
                k == ret'.stop[1]
                j == ret'.stop[2]
            IN /\ \A p \in 1..(k - 1) :
                    \A i \in 0..(Len(folder.files[order[p]]) - 1) :
                       DocId(order[p], i) \in DOMAIN collection'
               /\ \A i \in 0..(j - 1) : DocId(order[k], i) \in DOMAIN collection'
      ]_vars

\* a note that gave two chunks was cut to one and ingested again: the entry of
\* its second chunk is still in the store, and nothing in the folder has its text
C24_Witness ==
    /\ ret.op = "ingest_folder"
    /\ ~ret.raised
    /\ "a" \in DOMAIN folder.files
    /\ Len(folder.files["a"]) = 1
    /\ DocId("a", 1) \in DOMAIN collection
    /\ collection[DocId("a", 1)].document = NoteWithPII
    /\ \A stem \in DOMAIN folder.files :
          \A i \in 1..Len(folder.files[stem]) : folder.files[stem][i] # NoteWithPII
    /\ Retrievable(collection, DocId("a", 1))

(***************************************************************************)
(* Retrieval from a collection that notes were ingested into.              *)
(***************************************************************************)
\* RAGManager.rag_retrieve(query): the store's results and the context returned
RagRetrieve ==
    /\ pc = "IDLE"
    /\ \/ \E results \in QueryOutcomes(collection, N_RESULTS) :
            ret' = [op |-> "rag_retrieve", raised |-> FALSE, results |-> results,
                    value |-> RagFormat(results), printed |-> <<>>]
       \/ ret' = [op |-> "rag_retrieve", raised |-> TRUE,
                  results |-> QueryResult(collection, <<>>),
                  value |-> <<>>, printed |-> <<>>]
    /\ UNCHANGED <<other, globals, enabled, guard, memory, file, faults, collection, folder, ingested, pc, frame>>

\* RAGManager.query_notes(query): prints each match once and returns the
\* store's results, or None when there are none
QueryNotes ==
    /\ pc = "IDLE"
    /\ \/ \E results \in QueryOutcomes(collection, N_RESULTS) :
            ret' = [op |-> "query_notes", raised |-> FALSE, results |-> results,
                    value |-> <<>>, printed |-> QueryNotesPrinted(results)]
       \/ ret' = [op |-> "query_notes", raised |-> TRUE, results |-> QueryResult(collection, <<>>),
                  value |-> <<>>, printed |-> <<>>]
    /\ UNCHANGED <<other, globals, enabled, guard, memory, file, faults, collection, folder, ingested, pc, frame>>

\* the folders whose ingestion filled the collection
SampleFolders ==
    {[x \in {} |-> x],
     [x \in {"a"} |-> <<ChunkA, NoteWithPII>>],
     [x \in {"a", "b"} |-> IF x = "a" THEN <<ChunkA>> ELSE <<ChunkB, NoteWithPII>>]}

InitRetrieve ==
    /\ globals = FreshGlobals
    /\ enabled = FALSE
    /\ guard = "None"
    /\ memory = <<>>
    /\ file = Saved(<<>>)
    /\ faults = 0
    /\ \E files \in SampleFolders :
         /\ folder = [exists |-> TRUE, files |-> files]
         /\ \E order \in Orders(files) :
              /\ collection = IngestFiles(EmptyCollection, files, order, Len(order) + 1, 0)
              /\ ingested = [done |-> TRUE, files |-> files, ids |-> DOMAIN collection]
    /\ pc = "IDLE"
    /\ frame = NoFrame
    /\ ret = NoRet
    /\ other = NoOther

NextRetrieve ==
    \/ RagRetrieve
    \/ QueryNotes

SpecRetrieve == InitRetrieve /\ [][NextRetrieve]_vars

\* the metadata records of the matches when the store returned a document and a
\* record for each of them, no match otherwise
Matches(results) ==
    IF /\ results.keys = {"documents", "metadatas"}
       /\ results.documents # <<>>
       /\ results.metadatas # <<>>
       /\ Len(results.documents[1]) = Len(results.metadatas[1])
    THEN results.metadatas[1]
    ELSE <<>>

\* C5 as claimed: the context rag_retrieve formats holds one block for each
\* distinct (filename, chunk_index) among the store's matches.
C5_RetrieveDeduplicates ==
    (ret.op = "rag_retrieve" /\ ~ret.raised /\ Matches(ret.results) # <<>>) =>
        LET metas == Matches(ret.results)
        IN CountToken(ret.value, SOURCE)
             = Cardinality({DedupKey(metas[i]) : i \in 1..Len(metas)})

\* the store returned no match: no documents, no list of them, or an empty one
ZeroMatches(results) ==
    \/ "documents" \notin results.keys
    \/ results.documents = <<>>
    \/ results.documents[1] = <<>>

\* C13: when the store returns no match (documents missing, an empty outer
\* list, an empty first list), rag_retrieve returns the fallback sentence and
\* nothing else: no preamble, no block.
C13_NoMatchGivesFallback ==
    (ret.op = "rag_retrieve" /\ ~ret.raised /\ ZeroMatches(ret.results)) =>
        ret.value = <<FALLBACK>>

C13_Witness ==
    /\ ret.op = "rag_retrieve"
    /\ ~ret.raised
    /\ "documents" \notin ret.results.keys
    /\ "metadatas" \in ret.results.keys
    /\ ret.results.metadatas # <<>>
    /\ Len(ret.results.metadatas[1]) >= 2
    /\ ret.value = <<FALLBACK>>

\* the metadata records the store returned for the query, none when the key or
\* the list is missing
ReturnedMetadata(results) ==
    IF "metadatas" \in results.keys /\ results.metadatas # <<>>
    THEN results.metadatas[1] ELSE <<>>

\* C21: when the store returns documents, rag_retrieve returns the preamble
\* around as many blocks as the smaller of the number of documents and the
\* number of metadata records; with documents and no metadata record that is
\* the preamble alone, neither the fallback sentence nor a block per document.
C21_BlocksAreMinOfDocsAndMetadata ==
    (ret.op = "rag_retrieve" /\ ~ret.raised /\ ~ZeroMatches(ret.results)) =>
        LET docs == ret.results.documents[1]
            metas == ReturnedMetadata(ret.results)
        IN /\ Head(ret.value) = PREAMBLE
           /\ CountToken(ret.value, SOURCE) = Min(Len(docs), Len(metas))
           /\ CountToken(ret.value, FALLBACK) = 0
           /\ metas = <<>> => ret.value = <<PREAMBLE>>

C21_Witness ==
    /\ ret.op = "rag_retrieve"
    /\ ~ret.raised
    /\ "metadatas" \notin ret.results.keys
    /\ ret.results.documents # <<>>
    /\ Len(ret.results.documents[1]) >= 2
    /\ ret.value = <<PREAMBLE>>

(***************************************************************************)
(* One process from its start: the guard is built on first use, text is    *)
(* sanitized, the memory manager is built and entries are appended.        *)
(***************************************************************************)
\* the texts sanitize_text is called with
SampleTexts == {<<>>, <<"hello">>, <<"a@b.com", "Alice">>}

\* the files a process may find
FileSamples ==
    {MissingFile, Truncated, GarbledFile, UndecodableFile, NotEntriesFile,
     Saved(<<Entry(<<"hello">>, <<"ok">>), Entry(<<"[REDACTED]">>, <<"ok">>)>>)}

\* get_guard()
GetGuard ==
    /\ \E o \in GetGuardOutcomes(globals, enabled, guard) :
         /\ globals' = o.globals
         /\ enabled' = o.enabled
         /\ guard' = o.guard
         /\ ret' = [op |-> "get_guard", raised |-> FALSE,
                    built |-> (globals.guard_instance = "None"),
                    instance |-> o.globals.inits]
    /\ UNCHANGED <<other, memory, file, faults, collection, folder, ingested, pc, frame>>

\* a sanitize that gives up the detector once it has thrown
SanitizeTextDropsDetector ==
    /\ \E text \in SampleTexts :
         \E o \in GetGuardOutcomes(globals, enabled, guard) :
           \E c \in SanitizeCalls(o.enabled, o.guard, text, faults < MaxFaults) :
             /\ globals' = o.globals
             /\ enabled' = o.enabled
             /\ guard' = IF c.detector = "raised" THEN "None" ELSE o.guard
             /\ faults' = faults + CallFaults(c)
             /\ ret' = [op |-> "sanitize_text", raised |-> c.raised, text |-> text,
                        value |-> c.value, call |-> c,
                        built |-> (globals.guard_instance = "None"),
                        prev_detector |-> IF ret.op = "sanitize_text"
                                          THEN ret.call.detector ELSE "none"]
    /\ UNCHANGED <<other, memory, file, collection, folder, ingested, pc, frame>>

\* sanitize_text(text): get_guard().sanitize(text)
SanitizeText ==
    /\ \E text \in SampleTexts :
         \E o \in GetGuardOutcomes(globals, enabled, guard) :
           \E c \in SanitizeCalls(o.enabled, o.guard, text, faults < MaxFaults) :
             /\ globals' = o.globals
             /\ enabled' = o.enabled
             /\ guard' = o.guard
             /\ faults' = faults + CallFaults(c)
             /\ ret' = [op |-> "sanitize_text", raised |-> c.raised, text |-> text,
                        value |-> c.value, call |-> c,
                        built |-> (globals.guard_instance = "None"),
                        prev_detector |-> IF ret.op = "sanitize_text"
                                          THEN ret.call.detector ELSE "none"]
    /\ UNCHANGED <<other, memory, file, collection, folder, ingested, pc, frame>>

\* ThoughtAgent(): MemoryManager() takes the guard and loads MEMORY_FILE; when
\* the load raises there is no agent
Construct ==
    /\ pc = "NEW"
    /\ \E o \in GetGuardOutcomes(globals, enabled, guard) :
         /\ globals' = o.globals
         /\ enabled' = o.enabled
         /\ guard' = o.guard
    /\ LET l == LoadOutcome(file)
       IN /\ memory' = l.memory
          /\ pc' = IF l.raised THEN "NEW" ELSE "IDLE"
          /\ ret' = [op |-> "construct", raised |-> l.raised, error |-> l.error,
                     found |-> file]
    /\ UNCHANGED <<other, file, faults, collection, folder, ingested, frame>>

\* the process ends; the next one starts with the module's globals as imported
Exit ==
    /\ pc = "IDLE"
    /\ pc' = "NEW"
    /\ globals' = FreshGlobals
    /\ enabled' = FALSE
    /\ guard' = "None"
    /\ memory' = <<>>
    /\ ret' = NoRet
    /\ UNCHANGED <<other, file, faults, collection, folder, ingested, frame>>

InitGuard ==
    /\ globals = FreshGlobals
    /\ enabled = FALSE
    /\ guard = "None"
    /\ memory = <<>>
    /\ file = MissingFile
    /\ faults = 0
    /\ collection = EmptyCollection
    /\ folder = NoFolder
    /\ ingested = NotIngested
    /\ pc = "NEW"
    /\ frame = NoFrame
    /\ ret = NoRet
    /\ other = NoOther

NextGuard ==
    \/ GetGuard
    \/ SanitizeText
    \/ Construct
    \/ AddEntry

SpecGuard == InitGuard /\ [][NextGuard]_vars

\* the step is a call of sanitize_text (every other step sets ret to its own)
Sanitizes == ret'.op = "sanitize_text"

\* C14: when the detector throws in a call of sanitize, the call raises nothing
\* and returns the pattern redaction of its input (the input itself if the
\* pattern redaction throws too), and the guard keeps its detector; a call on
\* a guard that holds a detector always asks the detector, whatever the call
\* before it did.
C14_FallbackIsForOneCall ==
    [][Sanitizes =>
          /\ ret'.call.detector = "raised" =>
                /\ ~ret'.raised
                /\ ret'.value = IF FailedOpen(ret'.call) THEN ret'.text
                                 ELSE SanitizeRegex(ret'.text)
                /\ guard' = "Guard"
          /\ (guard = "Guard" /\ ret'.text # <<>>) =>
                /\ ret'.call.detector \in {"ok", "raised"}
                /\ guard' = "Guard"]_vars

C14_Witness ==
    /\ ret.op = "sanitize_text"
    /\ ret.prev_detector = "raised"
    /\ ret.call.detector = "ok"
    /\ ret.value = GuardValidate(ret.text)
    /\ ret.value # SanitizeRegex(ret.text)
    /\ guard = "Guard"

\* C15 as claimed: sanitize never raises, and whenever the pattern redaction
\* throws in a call, the call returns its input as it is.
C15_RegexThrowsGivesInput ==
    ret.op = "sanitize_text" =>
        /\ ~ret.raised
        /\ RegexRaised(ret.call) => ret.value = ret.text

\* C15, amended: sanitize never raises; when the pattern redaction throws in
\* the except branch (after the detector or the pattern redaction of the try
\* branch has thrown), the call returns its input as it is; a pattern
\* redaction that throws in the try branch is attempted once more, and when
\* that attempt does not throw the call returns the redacted text.
C15_LastRegexThrowsGivesInput ==
    ret.op = "sanitize_text" =>
        /\ ~ret.raised
        /\ FailedOpen(ret.call) => ret.value = ret.text
        /\ (RegexRaised(ret.call) /\ ~FailedOpen(ret.call)) =>
              /\ ret.call.regex = <<"raised", "ok">>
              /\ ret.call.detector = "none"
              /\ ret.value = SanitizeRegex(ret.text)

C15_Witness ==
    /\ ret.op = "sanitize_text"
    /\ ret.call.detector = "raised"
    /\ FailedOpen(ret.call)
    /\ HasKind(ret.value, PatternKinds)

\* C16: the guard is built by the first get_guard of the process and never
\* again: every call hands out that one guard, the import is attempted at most
\* once, enabled and the detector handle stay as that first call set them, and
\* a guard built without a detector redacts by pattern in every call.
C16_GuardBuiltOnce ==
    [][/\ globals'.inits <= 1
       /\ globals'.imports <= 1
       /\ globals.guard_instance = "PIIGuard" =>
             /\ globals' = globals
             /\ enabled' = enabled
             /\ guard' = guard
       /\ ret'.op = "get_guard" => ret'.instance = 1
       /\ ret'.op \in {"get_guard", "sanitize_text", "construct"} =>
             globals'.guard_instance = "PIIGuard"
       /\ (Sanitizes /\ enabled' /\ guard' = "None" /\ ret'.text # <<>>) =>
             /\ ret'.call.detector = "none"
             /\ ret'.call.regex # <<>>]_vars

C16_Witness ==
    /\ ret.op = "sanitize_text"
    /\ ~ret.built
    /\ globals.GUARDRAILS_AVAILABLE
    /\ enabled
    /\ guard = "None"
    /\ ret.call.regex = <<"ok">>
    /\ ret.value # ret.text

\* C20: with the guard disabled, or on an empty text, sanitize returns its
\* input and calls neither the detector nor the pattern redaction; with the
\* guard disabled the entry add_entry appends holds its two arguments as given.
C20_DisabledOrEmptyIsIdentity ==
    /\ (ret.op = "sanitize_text" /\ (~enabled \/ ret.text = <<>>)) =>
          /\ ret.value = ret.text
          /\ ~ret.raised
          /\ ret.call.detector = "none"
          /\ ret.call.regex = <<>>
    /\ (ret.op = "add_entry" /\ ~enabled) =>
          /\ memory # <<>>
          /\ memory[Len(memory)] = Entry(ret.args[1], ret.args[2])
          /\ \A i \in 1..2 : /\ ret.sanitized[i].detector = "none"
                              /\ ret.sanitized[i].regex = <<>>

C20_Witness ==
    /\ ret.op = "add_entry"
    /\ ~enabled
    /\ HasKind(ret.args[1], PatternKinds)
    /\ HasKind(memory[Len(memory)].query, PatternKinds)
    /\ Len(memory) >= 2

(***************************************************************************)
(* Processes one after the other over the memory file they find; no write  *)
(* and no call of sanitize meets an exception in them.                     *)
(***************************************************************************)
InitLoad ==
    /\ globals = FreshGlobals
    /\ enabled = FALSE
    /\ guard = "None"
    /\ memory = <<>>
    /\ file \in FileSamples
    /\ faults = MaxFaults
    /\ collection = EmptyCollection
    /\ folder = NoFolder
    /\ ingested = NotIngested
    /\ pc = "NEW"
    /\ frame = NoFrame
    /\ ret = NoRet
    /\ other = NoOther

NextLoad ==
    \/ Construct
    \/ AddEntry
    \/ GetRecent
    \/ ClearMemory
    \/ Exit

SpecLoad == InitLoad /\ [][NextLoad]_vars

\* the file holds a JSON array of {query, response} entries
WellFormed(f) ==
    /\ f.content = "array"
    /\ \A i \in 1..Len(f.entries) : DOMAIN f.entries[i] = {"query", "response"}

\* C18 as claimed: when the memory file is there and is malformed (bytes that
\* cannot be decoded, text that is no JSON, JSON that is no array of entries),
\* the memory manager is built without an exception and starts with an empty log.
C18_MalformedFileGivesEmptyLog ==
    (ret.op = "construct" /\ ret.found.content # "missing" /\ ~WellFormed(ret.found)) =>
        /\ ~ret.raised
        /\ pc = "IDLE"
        /\ memory = <<>>

(***************************************************************************)
(* Two memory managers in one process over the same MEMORY_FILE: the       *)
(* agent's, and the one of a ThoughtAgent constructed later.  No write and *)
(* no call of sanitize meets an exception.                                 *)
(***************************************************************************)
\* what is asked of the second agent
OtherQueries == {<<"hello">>}

\* ThoughtAgent() once more: its MemoryManager() loads MEMORY_FILE as it is now
\* and takes the process's guard
OtherConstruct ==
    /\ pc = "IDLE"
    /\ LET l == LoadOutcome(file)
       IN /\ ~l.raised
          /\ other' = [constructed |-> TRUE, memory |-> l.memory]
          /\ ret' = [op |-> "other.construct", raised |-> FALSE, found |-> file]
    /\ UNCHANGED <<globals, enabled, guard, memory, file, faults, collection, folder, ingested, pc, frame>>

\* add_entry on the second manager
OtherAddEntry ==
    /\ pc = "IDLE"
    /\ other.constructed
    /\ Len(other.memory) < MaxLog
    /\ \E uq \in OtherQueries, resp \in LLMAnswers :
         \E o \in AddEntryOutcomes(other.memory, file, MaxFaults - faults, uq, resp) :
           /\ other' = [other EXCEPT !.memory = o.memory]
           /\ file' = o.file
           /\ faults' = faults + o.faults
           /\ ret' = [op |-> "other.add_entry", raised |-> o.raised, value |-> <<>>,
                      args |-> <<uq, resp>>, sanitized |-> o.sanitized]
    /\ UNCHANGED <<globals, enabled, guard, memory, collection, folder, ingested, pc, frame>>

\* get_recent_context on the second manager
OtherGetRecent ==
    /\ pc = "IDLE"
    /\ other.constructed
    /\ \E n \in 0..MaxN :
         ret' = [op |-> "other.get_recent_context", raised |-> FALSE, n |-> n,
                 value |-> GetRecentContext(other.memory, n)]
    /\ UNCHANGED <<other, globals, enabled, guard, memory, file, faults, collection, folder, ingested, pc, frame>>

\* clear on the second manager
OtherClear ==
    /\ pc = "IDLE"
    /\ other.constructed
    /\ other' = [other EXCEPT !.memory = <<>>]
    /\ \E sv \in SaveOutcomes(<<>>, file, faults < MaxFaults) :
         /\ file' = sv.file
         /\ faults' = IF sv.raised THEN faults + 1 ELSE faults
         /\ ret' = [op |-> "other.clear", raised |-> sv.raised, value |-> <<>>,
                    cleared |-> Len(other.memory)]
    /\ UNCHANGED <<globals, enabled, guard, memory, collection, folder, ingested, pc, frame>>

InitStores ==
    /\ \E g \in GuardStates :
         globals = g.globals /\ enabled = g.enabled /\ guard = g.guard
    /\ memory = <<>>
    /\ other = NoOther
    /\ file = Saved(<<>>)
    /\ faults = MaxFaults
    /\ collection = EmptyCollection
    /\ folder = NoFolder
    /\ ingested = NotIngested
    /\ pc = "IDLE"
    /\ frame = NoFrame
    /\ ret = NoRet

NextStores ==
    \/ AddEntry
    \/ GetRecent
    \/ ClearMemory
    \/ OtherConstruct
    \/ OtherAddEntry
    \/ OtherGetRecent
    \/ OtherClear

SpecStores == InitStores /\ [][NextStores]_vars

\* the log without its last entry
Front(log) == SubSeq(log, 1, Len(log) - 1)

\* C22: with two memory managers over one file, an append or clear through
\* either that returns leaves the file holding that manager's own log and
\* leaves the other manager's log as it was; a manager's log changes only in
\* its own operations and an append adds one entry to its own log, whatever
\* the file holds; what recent returns is taken from the manager's own log.
\* So no entry appended through the second manager is ever in the log of the
\* first, nor in the file after a write through the first.
C22_LastWriterWins ==
    [][/\ ret'.op \in {"add_entry", "clear"} =>
            /\ other' = other
            /\ ~ret'.raised => file' = Saved(memory')
       /\ ret'.op \in {"other.add_entry", "other.clear"} =>
            /\ memory' = memory
            /\ ~ret'.raised => file' = Saved(other'.memory)
       /\ ret'.op = "add_entry" => (memory' # <<>> /\ Front(memory') = memory)
       /\ ret'.op = "other.add_entry" =>
            (other'.memory # <<>> /\ Front(other'.memory) = other.memory)
       /\ memory' # memory => ret'.op \in {"add_entry", "clear"}
       /\ other'.memory # other.memory =>
            ret'.op \in {"other.construct", "other.add_entry", "other.clear"}
       /\ ret'.op = "get_recent_context" => ret'.value = GetRecentContext(memory, ret'.n)
       /\ ret'.op = "other.get_recent_context" =>
            ret'.value = GetRecentContext(other.memory, ret'.n)
       /\ \A i \in 1..Len(memory') : memory'[i].query \notin OtherQueries
       /\ (ret'.op \in {"add_entry", "clear"} /\ ~ret'.raised) =>
            \A i \in 1..Len(file'.entries) : file'.entries[i].query \notin OtherQueries
      ]_vars

\* a write through the first manager has just dropped from the file an entry
\* that was appended through the second, after the second had loaded an entry
\* of the first
C22_Witness ==
    /\ ret.op = "add_entry"
    /\ ~ret.raised
    /\ Len(memory) >= 2
    /\ file = Saved(memory)
    /\ other.constructed
    /\ Len(other.memory) >= 2
    /\ other.memory[1] = memory[1]
    /\ other.memory[Len(other.memory)].query \in OtherQueries
    /\ Len(other.memory) < Len(memory)

(***************************************************************************)
(* A write of MEMORY_FILE that fails (checked under Spec).                 *)
(***************************************************************************)
\* C23: when the save inside add_entry raises, the exception reaches the caller
\* and the log in memory holds the new entry all the same, while the file is
\* what it was or is left truncated, so the two differ if they agreed before;
\* the same holds when run fails at its persisting step.  Nothing but a later
\* add_entry or clear that returns writes the log to the file, and the memory
\* window of a run is read from the log in memory, whatever the file holds.
C23_FailedSaveKeepsEntry ==
    [][/\ (ret'.op = "add_entry" /\ ret'.raised) =>
            /\ memory' = Append(memory, Entry(ret'.sanitized[1].value,
                                              ret'.sanitized[2].value))
            /\ file' \in {file, Truncated}
            /\ file = Saved(memory) => file' # Saved(memory')
       /\ (pc = "PERSISTING_MEMORY" /\ pc' = "FAILED") =>
            /\ frame'.raised_at = "PERSISTING_MEMORY"
            /\ memory' # <<>>
            /\ Front(memory') = memory
            /\ memory = frame.memory_before
            /\ file' \in {file, Truncated}
            /\ file = Saved(memory) => file' # Saved(memory')
       /\ (pc = "FAILED" /\ pc' = "IDLE") =>
            (ret'.raised /\ memory' = memory /\ file' = file)
       /\ file' # file =>
            \/ file' = Truncated
            \/ /\ file' = Saved(memory')
               /\ \/ (ret'.op \in {"add_entry", "clear"} /\ ~ret'.raised)
                  \/ pc' = "DONE"
       /\ (pc = "RECALLING_MEMORY" /\ pc' = "COMPOSING_PROMPT") =>
            frame'.past_memory = LastEntries(memory, MEMORY_WINDOW)
      ]_vars

\* a run has read its memory window from a log whose newest entry the file
\* does not hold, because the save of the run before it raised
C23_Witness ==
    /\ pc = "COMPOSING_PROMPT"
    /\ Len(memory) >= 2
    /\ file = Saved(Front(memory))
    /\ frame.past_memory # <<>>
    /\ Len(frame.past_memory) = Len(file.entries) + 1
    /\ frame.past_memory = memory
    /\ faults = 1

====
